---- MODULE Spec2Model ----
(***************************************************************************)
(* Model of the Moira host adapter (src/Moira/Moira_dotnet.cpp): the       *)
(* MoiraHost class, its deferred bus-error slot, and the flat C boundary   *)
(* (moira_create .. moira_setStackFrame).  The instruction engine          *)
(* (moira::Moira) is an external collaborator: the model keeps the three   *)
(* registers the adapter reads (IRD, SR, PC), the engine's position in a   *)
(* boundary call, and lets the engine issue memory accesses, sync calls    *)
(* and interrupt-vector lookups in any order while it runs.                *)
(***************************************************************************)
EXTENDS Integers, Sequences, FiniteSets, TLC

\* ------------------------------------------------------------------ bounds

\* Cap on the scheduleBusError calls not yet matched by a thrown BusError
\* (schedule is not taken beyond it).
MaxSchedules == 2

\* ------------------------------------------------------------ value sets

\* Fault addresses handed to moira_triggerBusError: 0x00ABCDEF and 0x200.
FaultAddrs == {11259375, 512}
\* Fault addresses a callback body hands to moira_triggerBusError.
CbFaultAddrs == {11259375}
\* Address of the engine's memory accesses: 0x200 (one of the fault
\* addresses; the other differs from it).
AccessAddrs == {512}
\* Program counter values: 0x1000 and 0xFC0000 (wider than 16 bits).
PCs == {4096, 16515072}
\* Status register values: 0x2700 (supervisor) and 0x0700 (user).
SRs == {9984, 1792}
\* Condition-code bytes passed to moira_setCCR: 0 and 0x04 (Z).
CCRs == {0, 4}
\* Register index passed to moira_getD/setD/getA/setA.
RegIdx == {7}
\* Values passed to the setters of registers the adapter never reads.
AuxVals == {1}
\* Opcode register values: 0 and 0x4E71 (NOP).
IRDs == {0, 20081}
\* Values the embedder's read callbacks return / the engine writes.
ReadBytes == {0, 255}
ReadWords == {0, 65535}
WriteBytes == {165}
WriteWords == {42405}
\* Opaque context values of the callback contract.
Users == {1}
\* Cycle counts passed to sync and interrupt levels passed to
\* readIrqUserVector.
CycleCounts == {4}
Levels == {7}
\* Vector number an embedder's readIrqUserVector callback returns.
Vectors == {64}
\* Values an uninitialised uint16_t field may hold.
Indeterminate16 == {0, 65535}

\* "No value": the handler returned nothing (void, or it threw).
NoRet == 0 - 1

\* Engine methods a boundary call runs: reset(), the instruction loop
\* (execute(), execute(cycles), executeUntil(cycle)) and disassemble().
EngineOps == {"reset", "execute", "disassemble"}
ExecuteOps == {"execute"}

\* ------------------------------------------------------------- variables

VARIABLES
    handle,            \* "null" | "live": the moira_handle the embedder holds
    cb,                \* MoiraHost::cb, the stored callback contract
    pendingBusError,   \* MoiraHost::pendingBusError
    busErrorAddress,   \* MoiraHost::busErrorAddress
    busErrorIsWrite,   \* MoiraHost::busErrorIsWrite
    reg,               \* engine registers read by the adapter: ird, sr, pc (0 while no engine exists)
    where,             \* "embedder", or the boundary call the engine runs in
    req,               \* argument of the last moira_create: <<>> (null) or <<contract>>
    last,              \* the last operation and its arguments
    events,            \* what the last handler did, in order
    sig,               \* <<>> or <<frame>>: BusError thrown by the last handler
    ret,               \* value returned by the last handler (NoRet: none)
    outFrame,          \* <<>> or <<frame>>: the buffer moira_getStackFrame filled, while the embedder uses it
    inFrame,           \* <<>> or <<frame>>: frame passed to the last moira_setStackFrame
    escaped,           \* an exception crossed the C boundary in the last step
    surplus,           \* scheduleBusError calls minus BusError throws on this adapter
    streak,            \* schedule calls since the last delivery check (saturating at 2)
    sigStreak,         \* streak seen by the delivery check that threw sig (0: no throw)
    lastSched,         \* <<>> or <<[addr, isWrite]>>: arguments of the latest schedule call
    recording,         \* whether this behaviour records the registers at schedule calls
    schedReg           \* <<>> or <<registers>>: ird/sr/pc at the latest schedule call (while recording)

vars == <<handle, cb, pendingBusError, busErrorAddress, busErrorIsWrite, reg,
          where, req, last, events, sig, ret, outFrame, inFrame, escaped,
          surplus, streak, sigStreak, lastSched, recording, schedReg>>

slotVars == <<pendingBusError, busErrorAddress, busErrorIsWrite>>
ghostVars == <<surplus, streak, sigStreak, lastSched, recording, schedReg>>

\* --------------------------------------------------------------- helpers

\* struct moira_callbacks: the context and, per function pointer, whether
\* it is non-null.
Contracts ==
    [user : Users, read8 : BOOLEAN, read16 : BOOLEAN, write8 : BOOLEAN,
     write16 : BOOLEAN, sync : BOOLEAN, readIrqUserVector : BOOLEAN]

NoCallbacks ==
    [user |-> 0, read8 |-> FALSE, read16 |-> FALSE, write8 |-> FALSE,
     write16 |-> FALSE, sync |-> FALSE, readIrqUserVector |-> FALSE]

\* The three pending-fault fields of MoiraHost as one value.
Slot == [p |-> pendingBusError, a |-> busErrorAddress, w |-> busErrorIsWrite]

Op(name, arg, val) == [op |-> name, arg |-> arg, val |-> val]

\* One thing a handler did: a callback invoked (with the context, address
\* and value passed, and the result r it returned), a fault scheduled, the
\* engine's default sync, or a BusError thrown.
Ev(kind, fn, user, addr, v, r) ==
    [ev |-> kind, fn |-> fn, user |-> user, addr |-> addr, v |-> v, r |-> r]

Bit(b) == IF b THEN 1 ELSE 0

\* Requests a callback body may make: none, or one moira_triggerBusError.
CbScheds == {<<>>} \cup {<<[addr |-> a, isWrite |-> w]>> : a \in CbFaultAddrs, w \in BOOLEAN}

\* Engine getters used by the adapter (moira::Moira::getIRD/getSR/getPC).
getIRD(r) == r.ird
getSR(r) == r.sr
getPC(r) == r.pc

\* ------------------------------------------------------- MoiraHost class

\* Mutant: the constructor leaves pendingBusError set.
MoiraHostInit_PendingSet == [p |-> TRUE, a |-> 0, w |-> FALSE]

\* MoiraHost::MoiraHost: the initial pending-fault fields.
MoiraHostInit == [p |-> FALSE, a |-> 0, w |-> FALSE]

\* Mutant: a request made while one is pending is dropped (first wins).
scheduleBusError_KeepFirst(s, faultaddress, isWrite) ==
    IF s.p THEN s ELSE [p |-> TRUE, a |-> faultaddress, w |-> isWrite]

\* MoiraHost::scheduleBusError on slot s.
scheduleBusError(s, faultaddress, isWrite) ==
    [p |-> TRUE, a |-> faultaddress, w |-> isWrite]

\* Mutant: the read/write codes are swapped.
BusErrorFrame_Swapped(s, r, fc, ssw) ==
    [code |-> IF s.w THEN 16 ELSE 0, addr |-> s.a, ird |-> getIRD(r),
     sr |-> getSR(r), pc |-> getPC(r), fc |-> fc, ssw |-> ssw]

\* The frame built by throwPendingBusErrorIfNeeded.  fc and ssw are never
\* assigned by the code: they hold whatever the uninitialised local held.
BusErrorFrame(s, r, fc, ssw) ==
    [code |-> IF s.w THEN 0 ELSE 16,
     addr |-> s.a,
     ird  |-> getIRD(r),
     sr   |-> getSR(r),
     pc   |-> getPC(r),
     fc   |-> fc,
     ssw  |-> ssw]

\* Mutant: the frame carries the registers captured at the schedule call.
throwPendingBusErrorIfNeeded_AtSchedule(s, r, fc, ssw) ==
    IF s.p
    THEN [slot |-> [s EXCEPT !.p = FALSE],
          thrown |-> <<BusErrorFrame(s, IF schedReg # <<>> THEN schedReg[1] ELSE r,
                                     fc, ssw)>>]
    ELSE [slot |-> s, thrown |-> <<>>]

\* Mutant: the pending flag is not cleared before throwing.
throwPendingBusErrorIfNeeded_NoClear(s, r, fc, ssw) ==
    IF s.p
    THEN [slot |-> s, thrown |-> <<BusErrorFrame(s, r, fc, ssw)>>]
    ELSE [slot |-> s, thrown |-> <<>>]

\* MoiraHost::throwPendingBusErrorIfNeeded: the slot afterwards and the
\* exception thrown (<<>>: none).
throwPendingBusErrorIfNeeded(s, r, fc, ssw) ==
    IF s.p
    THEN [slot |-> [s EXCEPT !.p = FALSE],
          thrown |-> <<BusErrorFrame(s, r, fc, ssw)>>]
    ELSE [slot |-> s, thrown |-> <<>>]

\* What the embedder's callback body does to the adapter while it runs: it
\* may call moira_triggerBusError (-> scheduleBusError) once.
CallbackEffect(s, cbSched) ==
    IF cbSched = <<>> THEN s
    ELSE scheduleBusError(s, cbSched[1].addr, cbSched[1].isWrite)

SchedEvents(cbSched) ==
    IF cbSched = <<>> THEN <<>>
    ELSE <<Ev("schedule", "scheduleBusError", 0, cbSched[1].addr, Bit(cbSched[1].isWrite), NoRet)>>

ThrowEvents(thrown) ==
    IF thrown = <<>> THEN <<>>
    ELSE <<Ev("throw", "BusError", 0, thrown[1].addr, thrown[1].code, NoRet)>>

\* Mutant: the delivery check runs before the callback, as in sync.
AccessOutcome_CheckFirst(fn, s, c, addr, v, cbRet, cbSched, r, fc, ssw) ==
    LET chk == throwPendingBusErrorIfNeeded(s, r, fc, ssw)
    IN IF chk.thrown # <<>>
       THEN [slot |-> chk.slot, events |-> ThrowEvents(chk.thrown),
             thrown |-> chk.thrown, ret |-> NoRet]
       ELSE [slot |-> CallbackEffect(chk.slot, cbSched),
             events |-> <<Ev("callback", fn, c.user, addr, v, cbRet)>>
                        \o SchedEvents(cbSched),
             thrown |-> <<>>, ret |-> cbRet]

\* The common shape of read8/read16/write8/write16: the callback runs
\* first (and may schedule a fault), then the delivery check.
\* Outcome: slot, events, thrown, ret.
AccessOutcome(fn, s, c, addr, v, cbRet, cbSched, r, fc, ssw) ==
    LET s1  == CallbackEffect(s, cbSched)
        chk == throwPendingBusErrorIfNeeded(s1, r, fc, ssw)
    IN [slot   |-> chk.slot,
        events |-> <<Ev("callback", fn, c.user, addr, v, cbRet)>>
                   \o SchedEvents(cbSched) \o ThrowEvents(chk.thrown),
        thrown |-> chk.thrown,
        ret    |-> IF chk.thrown = <<>> THEN cbRet ELSE NoRet]

\* MoiraHost::read8
read8(s, c, addr, cbRet, cbSched, r, fc, ssw) ==
    AccessOutcome("read8", s, c, addr, 0, cbRet, cbSched, r, fc, ssw)

\* MoiraHost::read16
read16(s, c, addr, cbRet, cbSched, r, fc, ssw) ==
    AccessOutcome("read16", s, c, addr, 0, cbRet, cbSched, r, fc, ssw)

\* MoiraHost::write8
write8(s, c, addr, v, cbSched, r, fc, ssw) ==
    AccessOutcome("write8", s, c, addr, v, NoRet, cbSched, r, fc, ssw)

\* MoiraHost::write16
write16(s, c, addr, v, cbSched, r, fc, ssw) ==
    AccessOutcome("write16", s, c, addr, v, NoRet, cbSched, r, fc, ssw)

\* Mutant: sync forwards first and checks afterwards, as the accesses do.
sync_CallbackFirst(s, c, cycles, cbSched, r, fc, ssw) ==
    LET s1  == IF c.sync THEN CallbackEffect(s, cbSched) ELSE s
        evs == IF c.sync
               THEN <<Ev("callback", "sync", c.user, 0, cycles, NoRet)>>
                    \o SchedEvents(cbSched)
               ELSE <<Ev("default", "Moira::sync", 0, 0, cycles, NoRet)>>
        chk == throwPendingBusErrorIfNeeded(s1, r, fc, ssw)
    IN [slot |-> chk.slot, events |-> evs \o ThrowEvents(chk.thrown),
        thrown |-> chk.thrown, ret |-> NoRet]

\* MoiraHost::sync: the delivery check runs first; only if nothing is
\* thrown is the callback (or the engine's default sync) reached.
sync(s, c, cycles, cbSched, r, fc, ssw) ==
    LET chk == throwPendingBusErrorIfNeeded(s, r, fc, ssw)
    IN IF chk.thrown # <<>>
       THEN [slot |-> chk.slot, events |-> ThrowEvents(chk.thrown),
             thrown |-> chk.thrown, ret |-> NoRet]
       ELSE IF c.sync
            THEN [slot |-> CallbackEffect(chk.slot, cbSched),
                  events |-> <<Ev("callback", "sync", c.user, 0, cycles, NoRet)>>
                             \o SchedEvents(cbSched),
                  thrown |-> <<>>, ret |-> NoRet]
            ELSE [slot |-> chk.slot,
                  events |-> <<Ev("default", "Moira::sync", 0, 0, cycles, NoRet)>>,
                  thrown |-> <<>>, ret |-> NoRet]

\* Mutant: readIrqUserVector consumes the pending fault like the accesses.
readIrqUserVector_Consumes(s, c, level, cbRet, cbSched) ==
    [slot |-> [CallbackEffect(s, cbSched) EXCEPT !.p = FALSE],
     events |-> <<Ev("callback", "readIrqUserVector", c.user, 0, level, cbRet)>>
                \o SchedEvents(cbSched),
     thrown |-> <<>>, ret |-> cbRet]

\* MoiraHost::readIrqUserVector: no delivery check.
readIrqUserVector(s, c, level, cbRet, cbSched) ==
    IF c.readIrqUserVector
    THEN [slot |-> CallbackEffect(s, cbSched),
          events |-> <<Ev("callback", "readIrqUserVector", c.user, 0, level, cbRet)>>
                     \o SchedEvents(cbSched),
          thrown |-> <<>>, ret |-> cbRet]
    ELSE [slot |-> s, events |-> <<>>, thrown |-> <<>>, ret |-> 0]

\* ------------------------------------------------- engine (collaborator)

\* Which adapter methods the engine calls inside each boundary operation:
\* instruction execution uses all of them, reset fetches its vectors and
\* paces, the disassembler only fetches words.
EngineMayCall(w, fn) ==
    \/ w \in ExecuteOps
    \/ w = "reset" /\ fn \in {"read16", "sync"}
    \/ w = "disassemble" /\ fn = "read16"

\* The engine's exception dispatch exists in instruction execution only; a
\* BusError thrown under reset or disassemble unwinds out of the engine.
EngineDispatches(w) == w \in ExecuteOps

\* Where a thrown BusError ends up: consumed by the engine's dispatch, or
\* unwinding through the boundary function, none of which (moira_reset,
\* moira_execute*, moira_disassemble) has a handler.
BoundaryCatches(w) == FALSE

Escapes(w, thrown) ==
    thrown # <<>> /\ ~EngineDispatches(w) /\ ~BoundaryCatches(w)

SchedCount(evs) == Cardinality({i \in DOMAIN evs : evs[i].ev = "schedule"})

Min(a, b) == IF a < b THEN a ELSE b
Max(a, b) == IF a > b THEN a ELSE b

\* The register snapshot after a step that leaves the slot alone and
\* throws nothing: kept while the fault it belongs to is pending.
KeepSnapshot ==
    /\ recording' = recording
    /\ schedReg' = IF recording /\ pendingBusError THEN schedReg ELSE <<>>

\* ---------------------------------------------------------------- Init

Init ==
    /\ handle = "null"
    /\ cb = NoCallbacks
    /\ pendingBusError = FALSE
    /\ busErrorAddress = 0
    /\ busErrorIsWrite = FALSE
    /\ reg = [ird |-> 0, sr |-> 0, pc |-> 0]
    /\ where = "embedder"
    /\ req = <<>>
    /\ last = Op("none", 0, 0)
    /\ events = <<>>
    /\ sig = <<>>
    /\ ret = NoRet
    /\ outFrame = <<>>
    /\ inFrame = <<>>
    /\ escaped = FALSE
    /\ surplus = 0
    /\ streak = 0
    /\ sigStreak = 0
    /\ lastSched = <<>>
    /\ recording = FALSE
    /\ schedReg = <<>>

\* ------------------------------------------- adapter methods (by engine)

\* Commit the outcome of one adapter method called by the engine.
\* check: where the method's delivery check runs relative to its callback
\* ("after", "before"), or "none" when it has no delivery check.
Commit(name, arg, val, out, cbSched, check) ==
    LET k == SchedCount(out.events)
    IN /\ surplus + k <= MaxSchedules
       /\ pendingBusError' = out.slot.p
       /\ busErrorAddress' = out.slot.a
       /\ busErrorIsWrite' = out.slot.w
       /\ last' = Op(name, arg, val)
       /\ events' = out.events
       /\ sig' = out.thrown
       /\ ret' = out.ret
       /\ outFrame' = <<>>
       /\ inFrame' = <<>>
       /\ escaped' = Escapes(where, out.thrown)
       /\ where' = IF Escapes(where, out.thrown) THEN "embedder" ELSE where
       /\ surplus' = Max(surplus + k - Len(out.thrown), 0 - 1)
       /\ lastSched' = IF k > 0 THEN cbSched ELSE lastSched
       /\ recording' = recording
       /\ schedReg' = IF ~recording THEN <<>>
                      ELSE IF k > 0 THEN <<reg>>
                      ELSE IF out.slot.p \/ out.thrown # <<>> THEN schedReg
                      ELSE <<>>
       /\ sigStreak' = IF out.thrown = <<>> THEN 0
                       ELSE IF check = "after" THEN Min(streak + k, 2) ELSE streak
       /\ streak' = IF check = "none" THEN Min(streak + k, 2)
                    ELSE IF check = "after" THEN 0 ELSE k
       /\ UNCHANGED <<handle, cb, reg, req>>

CanCall(fn) == handle = "live" /\ where \in EngineOps /\ EngineMayCall(where, fn)

\* The uninitialised fc/ssw of the local frame are read only when a frame
\* is thrown; in every other call their value is immaterial and fixed at 0.
JunkRead(out, fc, ssw) == out.thrown = <<>> => (fc = 0 /\ ssw = 0)

Call_read8(addr, cbRet, cbSched, fc, ssw) ==
    /\ CanCall("read8")
    /\ JunkRead(read8(Slot, cb, addr, cbRet, cbSched, reg, fc, ssw), fc, ssw)
    /\ Commit("read8", addr, 0,
              read8(Slot, cb, addr, cbRet, cbSched, reg, fc, ssw), cbSched, "after")

Call_read16(addr, cbRet, cbSched, fc, ssw) ==
    /\ CanCall("read16")
    /\ JunkRead(read16(Slot, cb, addr, cbRet, cbSched, reg, fc, ssw), fc, ssw)
    /\ Commit("read16", addr, 0,
              read16(Slot, cb, addr, cbRet, cbSched, reg, fc, ssw), cbSched, "after")

Call_write8(addr, v, cbSched, fc, ssw) ==
    /\ CanCall("write8")
    /\ JunkRead(write8(Slot, cb, addr, v, cbSched, reg, fc, ssw), fc, ssw)
    /\ Commit("write8", addr, v,
              write8(Slot, cb, addr, v, cbSched, reg, fc, ssw), cbSched, "after")

Call_write16(addr, v, cbSched, fc, ssw) ==
    /\ CanCall("write16")
    /\ JunkRead(write16(Slot, cb, addr, v, cbSched, reg, fc, ssw), fc, ssw)
    /\ Commit("write16", addr, v,
              write16(Slot, cb, addr, v, cbSched, reg, fc, ssw), cbSched, "after")

Call_sync(cycles, cbSched, fc, ssw) ==
    /\ CanCall("sync")
    /\ JunkRead(sync(Slot, cb, cycles, cbSched, reg, fc, ssw), fc, ssw)
    /\ Commit("sync", 0, cycles,
              sync(Slot, cb, cycles, cbSched, reg, fc, ssw), cbSched, "before")

Call_readIrqUserVector(level, cbRet, cbSched) ==
    /\ CanCall("readIrqUserVector")
    /\ Commit("readIrqUserVector", 0, level,
              readIrqUserVector(Slot, cb, level, cbRet, cbSched), cbSched, "none")

\* ----------------------------------------------------- engine internals

\* The engine changes its own registers while it resets or executes.
EngineAdvance(ird, sr, pc) ==
    /\ handle = "live"
    /\ where \in EngineOps \ {"disassemble"}
    /\ reg' = [ird |-> ird, sr |-> sr, pc |-> pc]
    /\ reg' # reg
    /\ last' = Op("engine", 0, 0)
    /\ events' = <<>>
    /\ sig' = <<>>
    /\ ret' = NoRet
    /\ outFrame' = <<>>
    /\ inFrame' = <<>>
    /\ escaped' = FALSE
    /\ sigStreak' = 0
    /\ KeepSnapshot
    /\ UNCHANGED <<handle, cb, slotVars, where, req, surplus, streak, lastSched>>

\* How the return of each engine method is recorded in last.
Returned(w) ==
    [reset |-> "reset returned", execute |-> "execute returned",
     disassemble |-> "disassemble returned"][w]

\* The engine finishes and the boundary function returns to the embedder.
EngineReturn(len) ==
    /\ handle = "live"
    /\ where \in EngineOps
    /\ where' = "embedder"
    /\ last' = Op(Returned(where), 0, 0)
    /\ events' = <<>>
    /\ sig' = <<>>
    /\ ret' = IF where = "disassemble" THEN len ELSE NoRet
    /\ outFrame' = <<>>
    /\ inFrame' = <<>>
    /\ escaped' = FALSE
    /\ sigStreak' = 0
    /\ KeepSnapshot
    /\ UNCHANGED <<handle, cb, slotVars, reg, req, surplus, streak, lastSched>>

\* ------------------------------------------------------ boundary surface

\* What a boundary call that does not run the engine leaves behind.
Quiet(name, arg, val, r) ==
    /\ last' = Op(name, arg, val)
    /\ events' = <<>>
    /\ sig' = <<>>
    /\ ret' = r
    /\ escaped' = FALSE
    /\ sigStreak' = 0

AtEmbedder == handle = "live" /\ where = "embedder"

\* Mutant: the write16 pointer is not validated.
ContractValid_SkipWrite16(c) ==
    c # <<>> /\ c[1].read8 /\ c[1].read16 /\ c[1].write8

\* The validation of moira_create: contract present and the four required
\* callbacks non-null.
ContractValid(c) ==
    c # <<>> /\ c[1].read8 /\ c[1].read16 /\ c[1].write8 /\ c[1].write16

\* moira_create(cb).  allocOk: new MoiraHost(*cb) does not throw; r0: the
\* registers the engine's constructor leaves (the adapter sets none).
moira_create(c, allocOk, r0) ==
    /\ handle = "null"
    /\ where = "embedder"
    /\ req' = c
    /\ IF ContractValid(c) /\ allocOk
       THEN /\ handle' = "live"
            /\ cb' = c[1]
            /\ reg' = r0
            /\ pendingBusError' = MoiraHostInit.p
            /\ busErrorAddress' = MoiraHostInit.a
            /\ busErrorIsWrite' = MoiraHostInit.w
            /\ Quiet("moira_create", 0, Bit(allocOk), 1)
       ELSE /\ UNCHANGED <<handle, cb, slotVars, reg>>
            /\ Quiet("moira_create", 0, Bit(allocOk), 0)
    /\ outFrame' = <<>>
    /\ inFrame' = <<>>
    /\ recording' = recording
    /\ schedReg' = <<>>
    /\ UNCHANGED <<where, surplus, streak, lastSched>>

\* moira_destroy(h): the adapter and its engine cease to exist.
moira_destroy ==
    /\ AtEmbedder
    /\ handle' = "null"
    /\ cb' = NoCallbacks
    /\ pendingBusError' = FALSE
    /\ busErrorAddress' = 0
    /\ busErrorIsWrite' = FALSE
    /\ reg' = [ird |-> 0, sr |-> 0, pc |-> 0]
    /\ req' = <<>>
    /\ Quiet("moira_destroy", 0, 0, NoRet)
    /\ outFrame' = <<>>
    /\ inFrame' = <<>>
    /\ surplus' = 0
    /\ streak' = 0
    /\ lastSched' = <<>>
    /\ recording' = recording
    /\ schedReg' = <<>>
    /\ UNCHANGED where

\* Mutant: moira_reset clears the pending fault.
EnterEngine_ResetClears(name, method, arg) ==
    /\ AtEmbedder
    /\ where' = method
    /\ Quiet(name, arg, 0, NoRet)
    /\ outFrame' = <<>>
    /\ inFrame' = <<>>
    /\ pendingBusError' = (pendingBusError /\ method # "reset")
    /\ recording' = recording
    /\ schedReg' = IF recording /\ pendingBusError' THEN schedReg ELSE <<>>
    /\ UNCHANGED <<handle, cb, busErrorAddress, busErrorIsWrite, reg, req,
                   surplus, streak, lastSched>>

\* A boundary call that hands control to the engine.
EnterEngine(name, method, arg) ==
    /\ AtEmbedder
    /\ where' = method
    /\ Quiet(name, arg, 0, NoRet)
    /\ outFrame' = <<>>
    /\ inFrame' = <<>>
    /\ KeepSnapshot
    /\ UNCHANGED <<handle, cb, slotVars, reg, req, surplus, streak, lastSched>>

moira_reset == EnterEngine("moira_reset", "reset", 0)
moira_execute == EnterEngine("moira_execute", "execute", 0)
moira_execute_cycles(cycles) == EnterEngine("moira_execute_cycles", "execute", cycles)
moira_execute_until(cycle) == EnterEngine("moira_execute_until", "execute", cycle)
moira_disassemble(addr) == EnterEngine("moira_disassemble", "disassemble", addr)

\* moira_triggerBusError(h, faultaddress, isWrite)
moira_triggerBusError(faultaddress, isWrite) ==
    /\ AtEmbedder
    /\ surplus < MaxSchedules
    /\ LET s == scheduleBusError(Slot, faultaddress, isWrite)
       IN /\ pendingBusError' = s.p
          /\ busErrorAddress' = s.a
          /\ busErrorIsWrite' = s.w
    /\ last' = Op("moira_triggerBusError", faultaddress, Bit(isWrite))
    /\ events' = <<Ev("schedule", "scheduleBusError", 0, faultaddress, Bit(isWrite), NoRet)>>
    /\ sig' = <<>>
    /\ ret' = NoRet
    /\ outFrame' = <<>>
    /\ inFrame' = <<>>
    /\ escaped' = FALSE
    /\ sigStreak' = 0
    /\ surplus' = surplus + 1
    /\ streak' = Min(streak + 1, 2)
    /\ lastSched' = <<[addr |-> faultaddress, isWrite |-> isWrite]>>
    /\ recording' = recording
    /\ schedReg' = IF recording THEN <<reg>> ELSE <<>>
    /\ UNCHANGED <<handle, cb, reg, where, req>>

\* A getter of the boundary: returns v, changes nothing else.
Getter(name, v) ==
    /\ AtEmbedder
    /\ Quiet(name, 0, 0, v)
    /\ outFrame' = <<>>
    /\ inFrame' = <<>>
    /\ KeepSnapshot
    /\ UNCHANGED <<handle, cb, slotVars, reg, where, req, surplus, streak, lastSched>>

\* A setter of the boundary: the engine's registers become r.
Setter(name, v, r) ==
    /\ AtEmbedder
    /\ reg' = r
    /\ Quiet(name, 0, v, NoRet)
    /\ outFrame' = <<>>
    /\ inFrame' = <<>>
    /\ KeepSnapshot
    /\ UNCHANGED <<handle, cb, slotVars, where, req, surplus, streak, lastSched>>

moira_getPC == Getter("moira_getPC", getPC(reg))
moira_setPC(v) == Setter("moira_setPC", v, [reg EXCEPT !.pc = v])
moira_getIRD == Getter("moira_getIRD", getIRD(reg))
moira_setIRD(v) == Setter("moira_setIRD", v, [reg EXCEPT !.ird = v])
moira_getSR == Getter("moira_getSR", getSR(reg))
moira_setSR(v) == Setter("moira_setSR", v, [reg EXCEPT !.sr = v])

\* moira::Moira::getCCR / setCCR: the condition codes are the low byte of
\* the status register.
getCCR(r) == getSR(r) % 256
setCCR(r, v) == [r EXCEPT !.sr = (r.sr \div 256) * 256 + v]
moira_getCCR == Getter("moira_getCCR", getCCR(reg))
moira_setCCR(v) == Setter("moira_setCCR", v, setCCR(reg, v))

\* moira::Moira::setSupervisorMode: the S bit (0x2000) of the status
\* register.
SBit == 2^13
setSupervisorMode(r, s) ==
    LET isSet == (r.sr \div SBit) % 2 = 1
    IN [r EXCEPT !.sr = IF s = isSet THEN r.sr
                         ELSE IF s THEN r.sr + SBit ELSE r.sr - SBit]
moira_setSupervisorMode(s) ==
    Setter("moira_setSupervisorMode", Bit(s), setSupervisorMode(reg, s))

\* Accessors of engine state the adapter never reads (clock, data and
\* address registers, PC0, IRC, SP, IPL): one-line pass-throughs to the
\* engine.  The model keeps none of that state: a getter's result is the
\* engine's (ret records none), a setter leaves the modelled state alone.
AuxGetter(name, n) ==
    /\ AtEmbedder
    /\ Quiet(name, n, 0, NoRet)
    /\ outFrame' = <<>>
    /\ inFrame' = <<>>
    /\ KeepSnapshot
    /\ UNCHANGED <<handle, cb, slotVars, reg, where, req, surplus, streak, lastSched>>

AuxSetter(name, n, v) ==
    /\ AtEmbedder
    /\ Quiet(name, n, v, NoRet)
    /\ outFrame' = <<>>
    /\ inFrame' = <<>>
    /\ KeepSnapshot
    /\ UNCHANGED <<handle, cb, slotVars, reg, where, req, surplus, streak, lastSched>>

moira_getClock == AuxGetter("moira_getClock", 0)
moira_setClock(v) == AuxSetter("moira_setClock", 0, v)
moira_getD(n) == AuxGetter("moira_getD", n)
moira_setD(n, v) == AuxSetter("moira_setD", n, v)
moira_getA(n) == AuxGetter("moira_getA", n)
moira_setA(n, v) == AuxSetter("moira_setA", n, v)
moira_getPC0 == AuxGetter("moira_getPC0", 0)
moira_setPC0(v) == AuxSetter("moira_setPC0", 0, v)
moira_getIRC == AuxGetter("moira_getIRC", 0)
moira_setIRC(v) == AuxSetter("moira_setIRC", 0, v)
moira_getSP == AuxGetter("moira_getSP", 0)
moira_setSP(v) == AuxSetter("moira_setSP", 0, v)
moira_getIPL == AuxGetter("moira_getIPL", 0)
moira_setIPL(v) == AuxSetter("moira_setIPL", 0, v)

\* Mutant: the frame reports the pending fault's code and address.
getStackFrame_ReflectsPending(r) ==
    [code |-> IF pendingBusError /\ ~busErrorIsWrite THEN 16 ELSE 0,
     addr |-> IF pendingBusError THEN busErrorAddress ELSE 0,
     ird |-> getIRD(r), sr |-> getSR(r), pc |-> getPC(r), fc |-> 0, ssw |-> 0]

\* Mutant: the frame's pc field is 16 bits wide.
getStackFrame_Pc16(r) ==
    [code |-> 0, addr |-> 0, ird |-> getIRD(r), sr |-> getSR(r),
     pc |-> getPC(r) % 65536, fc |-> 0, ssw |-> 0]

\* The frame moira_getStackFrame writes into *frame.
getStackFrame(r) ==
    [code |-> 0, addr |-> 0, ird |-> getIRD(r), sr |-> getSR(r),
     pc |-> getPC(r), fc |-> 0, ssw |-> 0]

\* moira_getStackFrame(h, frame); hasFrame: frame is not null.
moira_getStackFrame(hasFrame) ==
    /\ AtEmbedder
    /\ Quiet("moira_getStackFrame", 0, Bit(hasFrame), NoRet)
    /\ outFrame' = IF hasFrame THEN <<getStackFrame(reg)>> ELSE <<>>
    /\ inFrame' = <<>>
    /\ KeepSnapshot
    /\ UNCHANGED <<handle, cb, slotVars, reg, where, req, surplus, streak, lastSched>>

\* Mutant: the program counter is restored from the frame's fault address.
setStackFrame_PcFromAddr(r, f) == [ird |-> f.ird, sr |-> f.sr, pc |-> f.addr]

\* The registers after moira_setStackFrame(h, frame) with a non-null frame.
setStackFrame(r, f) == [ird |-> f.ird, sr |-> f.sr, pc |-> f.pc]

\* moira_setStackFrame(h, frame); f = <<>>: frame is null.  When the
\* embedder passes back the buffer moira_getStackFrame just filled, that
\* buffer (outFrame) is still the one it holds.
moira_setStackFrame(f) ==
    /\ AtEmbedder
    /\ reg' = IF f = <<>> THEN reg ELSE setStackFrame(reg, f[1])
    /\ Quiet("moira_setStackFrame", 0, Len(f), NoRet)
    /\ outFrame' = IF f # <<>> /\ f = outFrame THEN outFrame ELSE <<>>
    /\ inFrame' = f
    /\ KeepSnapshot
    /\ UNCHANGED <<handle, cb, slotVars, where, req, surplus, streak, lastSched>>

\* Frames an embedder may pass to moira_setStackFrame (besides the one
\* moira_getStackFrame just gave it).
Frames ==
    { [code |-> x[1], addr |-> x[2], ird |-> i, sr |-> s, pc |-> p,
       fc |-> x[3], ssw |-> x[4]] :
      x \in {<<0, 0, 0, 0>>, <<16, 512, 5, 1>>}, i \in IRDs, s \in SRs, p \in PCs }

\* ----------------------------------------------------------------- Next

\* Every step but moira_create: the boundary calls on a live handle and
\* the engine's calls into the adapter.
Running ==
    \/ moira_destroy
    \/ moira_reset
    \/ moira_execute
    \/ \E n \in CycleCounts : moira_execute_cycles(n)
    \/ \E n \in CycleCounts : moira_execute_until(n)
    \/ \E a \in AccessAddrs : moira_disassemble(a)
    \/ \E a \in FaultAddrs, w \in BOOLEAN : moira_triggerBusError(a, w)
    \/ moira_getPC
    \/ \E v \in PCs : moira_setPC(v)
    \/ moira_getIRD
    \/ \E v \in IRDs : moira_setIRD(v)
    \/ moira_getSR
    \/ \E v \in SRs : moira_setSR(v)
    \/ \E b \in BOOLEAN : moira_getStackFrame(b)
    \/ \E f \in {<<>>, outFrame} \cup {<<x>> : x \in Frames} : moira_setStackFrame(f)
    \/ \E a \in AccessAddrs, v \in ReadBytes, s \in CbScheds, fc \in Indeterminate16,
          ssw \in Indeterminate16 : Call_read8(a, v, s, fc, ssw)
    \/ \E a \in AccessAddrs, v \in ReadWords, s \in CbScheds, fc \in Indeterminate16,
          ssw \in Indeterminate16 : Call_read16(a, v, s, fc, ssw)
    \/ \E a \in AccessAddrs, v \in WriteBytes, s \in CbScheds, fc \in Indeterminate16,
          ssw \in Indeterminate16 : Call_write8(a, v, s, fc, ssw)
    \/ \E a \in AccessAddrs, v \in WriteWords, s \in CbScheds, fc \in Indeterminate16,
          ssw \in Indeterminate16 : Call_write16(a, v, s, fc, ssw)
    \/ \E n \in CycleCounts, s \in CbScheds, fc \in Indeterminate16,
          ssw \in Indeterminate16 : Call_sync(n, s, fc, ssw)
    \/ \E l \in Levels, v \in Vectors, s \in CbScheds : Call_readIrqUserVector(l, v, s)
    \/ \E i \in IRDs, s \in SRs, p \in PCs : EngineAdvance(i, s, p)
    \/ \E n \in {2, 4} : EngineReturn(n)

Next ==
    \/ \E c \in {<<>>} \cup {<<x>> : x \in Contracts}, ok \in BOOLEAN,
          r0 \in [ird : IRDs, sr : SRs, pc : PCs] : moira_create(c, ok, r0)
    \/ Running

Spec == Init /\ [][Next]_vars

\* The same machine with the remaining accessors of the boundary: the
\* condition-code and supervisor-mode views of SR and the pass-throughs to
\* engine state the adapter never reads.
NextAccessors ==
    \/ Next
    \/ moira_getCCR
    \/ \E v \in CCRs : moira_setCCR(v)
    \/ \E s \in BOOLEAN : moira_setSupervisorMode(s)
    \/ moira_getClock
    \/ \E v \in AuxVals : moira_setClock(v)
    \/ \E n \in RegIdx : moira_getD(n)
    \/ \E n \in RegIdx, v \in AuxVals : moira_setD(n, v)
    \/ \E n \in RegIdx : moira_getA(n)
    \/ \E n \in RegIdx, v \in AuxVals : moira_setA(n, v)
    \/ moira_getPC0
    \/ \E v \in AuxVals : moira_setPC0(v)
    \/ moira_getIRC
    \/ \E v \in AuxVals : moira_setIRC(v)
    \/ moira_getSP
    \/ \E v \in AuxVals : moira_setSP(v)
    \/ moira_getIPL
    \/ \E v \in AuxVals : moira_setIPL(v)

SpecAccessors == Init /\ [][NextAccessors]_vars

\* The machine observed with the registers recorded at every schedule
\* call.
InitRecording ==
    /\ handle = "null"
    /\ cb = NoCallbacks
    /\ pendingBusError = FALSE
    /\ busErrorAddress = 0
    /\ busErrorIsWrite = FALSE
    /\ reg = [ird |-> 0, sr |-> 0, pc |-> 0]
    /\ where = "embedder"
    /\ req = <<>>
    /\ last = Op("none", 0, 0)
    /\ events = <<>>
    /\ sig = <<>>
    /\ ret = NoRet
    /\ outFrame = <<>>
    /\ inFrame = <<>>
    /\ escaped = FALSE
    /\ surplus = 0
    /\ streak = 0
    /\ sigStreak = 0
    /\ lastSched = <<>>
    /\ recording = TRUE
    /\ schedReg = <<>>

\* Contracts of the recorded behaviours: the four required callbacks and
\* readIrqUserVector present, sync present or absent.
RecordedContracts ==
    {c \in Contracts : c.read8 /\ c.read16 /\ c.write8 /\ c.write16
                        /\ c.readIrqUserVector}

NextRecording ==
    \/ \E c \in {<<x>> : x \in RecordedContracts}, ok \in BOOLEAN,
          r0 \in [ird : IRDs, sr : SRs, pc : PCs] : moira_create(c, ok, r0)
    \/ Running

SpecRecording == InitRecording /\ [][NextRecording]_vars


\* ================================================================ claims

ReadOps == {"read8", "read16"}
WriteOps == {"write8", "write16"}
AccessOps == ReadOps \cup WriteOps
DeliveryOps == AccessOps \cup {"sync"}
NonAccessOps ==
    {"moira_getClock", "moira_setClock", "moira_getD", "moira_setD",
     "moira_getA", "moira_setA", "moira_getPC", "moira_setPC",
     "moira_getPC0", "moira_setPC0", "moira_getIRC", "moira_setIRC",
     "moira_getIRD", "moira_setIRD", "moira_getCCR", "moira_setCCR",
     "moira_getSR", "moira_setSR", "moira_getSP", "moira_setSP",
     "moira_getIPL", "moira_setIPL", "moira_setSupervisorMode",
     "moira_getStackFrame", "moira_setStackFrame", "readIrqUserVector"}

\* C1: with a fault scheduled as a read at address A pending, a read8 or
\* read16 (whose callback schedules nothing itself) calls its callback and
\* then throws exactly one BusError whose frame has code 0x0010, addr A
\* and ird/sr/pc equal to the engine's registers at that call; afterwards
\* nothing is pending.
C1_ReadDeliversReadFault ==
    [][ (last'.op \in ReadOps /\ pendingBusError /\ ~busErrorIsWrite
         /\ SchedCount(events') = 0)
        => /\ Len(sig') = 1
           /\ sig'[1].code = 16
           /\ sig'[1].addr = busErrorAddress
           /\ sig'[1].ird = reg.ird /\ sig'[1].ird = reg'.ird
           /\ sig'[1].sr = reg.sr /\ sig'[1].sr = reg'.sr
           /\ sig'[1].pc = reg.pc /\ sig'[1].pc = reg'.pc
           /\ Len(events') = 2
           /\ events'[1].ev = "callback" /\ events'[2].ev = "throw"
           /\ surplus' = surplus - 1
           /\ ~pendingBusError' ]_vars

C1_Witness ==
    /\ last.op \in ReadOps
    /\ Len(sig) = 1
    /\ sig[1].code = 16
    /\ sig[1].addr = 11259375
    /\ last.arg = 512
    /\ sig[1].pc = 4096 /\ sig[1].sr = 9984 /\ sig[1].ird = 20081
    /\ ~pendingBusError

\* C2: the slot holds one fault: when two or more schedule calls precede a
\* delivery check with no other delivery check in between, the BusError
\* thrown carries the address and read/write code of the latest schedule
\* call, and nothing remains pending (the earlier requests are gone).
C2_LastScheduleWins ==
    (Len(sig) = 1 /\ sigStreak >= 2)
    => /\ lastSched # <<>>
       /\ sig[1].addr = lastSched[1].addr
       /\ sig[1].code = (IF lastSched[1].isWrite THEN 0 ELSE 16)
       /\ ~pendingBusError

C2_Witness ==
    /\ Len(sig) = 1
    /\ sigStreak = 2
    /\ surplus = 1
    /\ sig[1].addr = 512
    /\ sig[1].code = 0

\* C3: when no fault has been scheduled since the last delivery check (or
\* since construction), a read8/read16/write8/write16 whose callback
\* schedules nothing, or a sync, throws nothing and nothing crosses the
\* boundary.
C3_IdleAccessesRaiseNothing ==
    [][ (last'.op \in DeliveryOps /\ streak = 0
         /\ (last'.op = "sync" \/ SchedCount(events') = 0))
        => (sig' = <<>> /\ ~escaped' /\ surplus' = surplus + SchedCount(events')) ]_vars

C3_Witness ==
    /\ last.op \in AccessOps
    /\ sig = <<>>
    /\ lastSched # <<>>
    /\ surplus = 0
    /\ streak = 0
    /\ ~pendingBusError

\* C4: delivery is single-shot: the number of BusErrors thrown never
\* exceeds the number of schedule calls (their difference, surplus, is
\* never negative), and every throw is preceded by a schedule call made
\* since the previous delivery check.
C4_SingleShot ==
    /\ [](surplus >= 0)
    /\ [][ Len(sig') = 1 => (streak + SchedCount(events') >= 1) ]_vars

C4_Witness ==
    /\ surplus = 0
    /\ Len(sig) = 1
    /\ sigStreak = 1
    /\ ~pendingBusError

\* C5: an operation that is not a read/write/sync call (the register,
\* clock, IPL and supervisor-mode accessors, getStackFrame/setStackFrame,
\* readIrqUserVector) and in which no schedule call is made leaves the
\* pending flag, the fault address and the isWrite flag as they were and
\* throws nothing.
C5_NonAccessKeepsSlot ==
    [][ (last'.op \in NonAccessOps /\ SchedCount(events') = 0)
        => /\ pendingBusError' = pendingBusError
           /\ busErrorAddress' = busErrorAddress
           /\ busErrorIsWrite' = busErrorIsWrite
           /\ sig' = <<>> ]_vars

C5_Witness ==
    /\ last.op = "readIrqUserVector"
    /\ Len(events) = 1
    /\ pendingBusError
    /\ busErrorAddress = 11259375
    /\ busErrorIsWrite

\* The four required callbacks of the contract passed to moira_create.
RequiredPresent(c) ==
    c # <<>> /\ c[1].read8 /\ c[1].read16 /\ c[1].write8 /\ c[1].write16

\* After a moira_create that returned null nothing of an adapter exists;
\* after one that returned a handle the adapter holds the contract passed
\* and no pending fault.
NoPartialAdapter ==
    /\ ret = 0 => (handle = "null" /\ cb = NoCallbacks /\ ~pendingBusError)
    /\ ret = 1 => (handle = "live" /\ cb = req[1] /\ ~pendingBusError
                   /\ busErrorAddress = 0 /\ ~busErrorIsWrite)

\* C6 as stated: moira_create returns null exactly when the contract or
\* one of the four required callbacks is absent, and a valid adapter
\* whenever all four are present.
C6_Original ==
    last.op = "moira_create"
    => /\ (ret = 1) <=> RequiredPresent(req)
       /\ ret \in {0, 1}
       /\ NoPartialAdapter

\* C6 amended: moira_create returns null when the contract or one of the
\* four required callbacks is absent or when constructing the adapter
\* throws, and a valid adapter when all four are present and construction
\* does not throw, whatever the two optional callbacks are; no partially
\* constructed adapter is observable.
C6_CreateValidates ==
    last.op = "moira_create"
    => /\ (ret = 1) <=> (RequiredPresent(req) /\ last.val = 1)
       /\ ret \in {0, 1}
       /\ NoPartialAdapter

C6_Witness ==
    /\ last.op = "moira_create"
    /\ ret = 1
    /\ handle = "live"
    /\ ~cb.sync
    /\ cb.readIrqUserVector

\* C7: no internal fault crosses the boundary: no boundary operation ends
\* with a BusError unwinding into the embedder.
C7_NoFaultEscapes == ~escaped

\* C8: the code of a thrown frame is 0x0010 when the latest schedule call
\* asked for a read fault and 0x0000 when it asked for a write fault,
\* whichever call triggers the delivery, and its addr is the scheduled
\* address.
C8_CodeFollowsSchedule ==
    Len(sig) = 1
    => /\ lastSched # <<>>
       /\ sig[1].code = (IF lastSched[1].isWrite THEN 0 ELSE 16)
       /\ sig[1].addr = lastSched[1].addr

C8_Witness ==
    /\ last.op = "write16"
    /\ Len(sig) = 1
    /\ sig[1].code = 16
    /\ sig[1].addr = 11259375
    /\ last.arg = 512

\* C9: every thrown frame has fc = 0 and ssw = 0.
C9_ZeroFilled ==
    Len(sig) = 1 => (sig[1].fc = 0 /\ sig[1].ssw = 0)

\* C10: every read8/read16/write8/write16 call invokes its callback
\* exactly once, first, with the stored context and the call's address
\* and value; a BusError is thrown only after it; and a read that throws
\* nothing returns the callback's result.
C10_CallbackThenCheck ==
    [][ last'.op \in AccessOps
        => /\ Len(events') >= 1
           /\ events'[1] = Ev("callback", last'.op, cb.user, last'.arg,
                              last'.val, events'[1].r)
           /\ \A i \in 2..Len(events') : events'[i].ev # "callback"
           /\ sig' # <<>> => events'[Len(events')].ev = "throw"
           /\ (sig' = <<>> /\ last'.op \in ReadOps) => ret' = events'[1].r ]_vars

C10_Witness ==
    /\ last.op = "write8"
    /\ Len(sig) = 1
    /\ Len(events) = 2
    /\ events[1].ev = "callback"
    /\ events[1].v = 165
    /\ events[2].ev = "throw"

\* C11: a sync call on an adapter whose sync callback is present invokes
\* that callback exactly once, first, with the stored context and the
\* cycle count n, whether or not a fault is pending; a BusError is thrown
\* only after the callback was invoked (callback, then delivery check).
C11_SyncForwardsThenChecks ==
    [][ (last'.op = "sync" /\ cb.sync)
        => /\ Len(events') >= 1
           /\ events'[1] = Ev("callback", "sync", cb.user, 0, last'.val, NoRet)
           /\ \A i \in 2..Len(events') : events'[i].ev # "callback"
           /\ sig' # <<>> => events'[Len(events')].ev = "throw" ]_vars

\* C12: readIrqUserVector(level) returns 0 and calls nothing when its
\* callback is absent, and calls the callback once with the stored context
\* and the same level and returns its result when it is present; a sync
\* call on an adapter whose sync callback is absent runs the engine's
\* default pacing with the same cycle count and calls no embedder callback.
C12_OptionalFallbacks ==
    [][ /\ (last'.op = "readIrqUserVector" /\ ~cb.readIrqUserVector)
           => (ret' = 0 /\ events' = <<>> /\ sig' = <<>>)
        /\ (last'.op = "readIrqUserVector" /\ cb.readIrqUserVector)
           => /\ Len(events') >= 1
              /\ events'[1] = Ev("callback", "readIrqUserVector", cb.user, 0,
                                 last'.val, ret')
              /\ \A i \in 2..Len(events') : events'[i].ev # "callback"
              /\ sig' = <<>>
        /\ (last'.op = "sync" /\ ~cb.sync)
           => events' = <<Ev("default", "Moira::sync", 0, 0, last'.val, NoRet)>> ]_vars

\* C13: moira_getStackFrame with a non-null frame yields ird/sr/pc equal
\* to the engine's current registers and code, addr, fc and ssw all 0,
\* whether a fault is pending, was just delivered, or neither; it changes
\* neither the registers nor the pending-fault slot nor the adapter.
C13_FrameFromLiveState ==
    [][ (last'.op = "moira_getStackFrame" /\ last'.val = 1)
        => /\ outFrame' = <<[code |-> 0, addr |-> 0, ird |-> reg.ird,
                             sr |-> reg.sr, pc |-> reg.pc, fc |-> 0, ssw |-> 0]>>
           /\ sig' = <<>>
           /\ UNCHANGED <<handle, cb, slotVars, reg, where>> ]_vars

C13_Witness ==
    /\ last.op = "moira_getStackFrame"
    /\ Len(outFrame) = 1
    /\ pendingBusError
    /\ busErrorAddress = 11259375
    /\ ~busErrorIsWrite
    /\ outFrame[1].pc = 16515072
    /\ outFrame[1].sr = 9984
    /\ outFrame[1].ird = 20081

\* C14: moira_setStackFrame with a non-null frame sets the engine's ird,
\* sr and pc to the frame's ird, sr and pc and nothing else: the frame's
\* code, addr, fc and ssw have no effect, and the pending flag, the fault
\* address and the isWrite flag stay as they were.
C14_SetWritesOnlyRegisters ==
    [][ (last'.op = "moira_setStackFrame" /\ Len(inFrame') = 1)
        => /\ reg' = [ird |-> inFrame'[1].ird, sr |-> inFrame'[1].sr,
                      pc |-> inFrame'[1].pc]
           /\ sig' = <<>>
           /\ UNCHANGED <<handle, cb, slotVars, where>> ]_vars

C14_Witness ==
    /\ last.op = "moira_setStackFrame"
    /\ Len(inFrame) = 1
    /\ inFrame[1].code = 16 /\ inFrame[1].addr = 512
    /\ inFrame[1].fc = 5 /\ inFrame[1].ssw = 1
    /\ inFrame[1].pc = 4096
    /\ reg.pc = 4096
    /\ pendingBusError
    /\ busErrorAddress = 11259375

\* C15: moira_getStackFrame leaves ird, sr and pc as they were, and a
\* moira_setStackFrame that directly follows it and is passed the frame it
\* returned leaves them as they were too: after the pair the three
\* registers equal their values before it.
C15_GetSetRoundTrip ==
    [][ /\ (last'.op = "moira_getStackFrame") => reg' = reg
        /\ (/\ last.op = "moira_getStackFrame" /\ Len(outFrame) = 1
            /\ last'.op = "moira_setStackFrame" /\ inFrame' = outFrame)
           => reg' = reg ]_vars

C15_Witness ==
    /\ last.op = "moira_setStackFrame"
    /\ Len(inFrame) = 1
    /\ outFrame = inFrame
    /\ inFrame[1].pc = 16515072
    /\ reg = [ird |-> 20081, sr |-> 9984, pc |-> 16515072]

\* C16: the ird/sr/pc of a thrown frame are the engine's registers at the
\* call that throws it: when they differ from the registers that held at
\* the latest schedule call (setters or the engine changed them in
\* between), the frame carries the current ones, not the scheduled-time
\* ones.
C16_FrameReadAtDelivery ==
    [][ Len(sig') = 1
        => /\ [ird |-> sig'[1].ird, sr |-> sig'[1].sr, pc |-> sig'[1].pc] = reg
           /\ reg' = reg
           /\ schedReg' # <<>>
           /\ schedReg'[1] # reg
              => [ird |-> sig'[1].ird, sr |-> sig'[1].sr, pc |-> sig'[1].pc]
                 # schedReg'[1] ]_vars

C16_Witness ==
    /\ Len(sig) = 1
    /\ Len(schedReg) = 1
    /\ schedReg[1] = [ird |-> 0, sr |-> 1792, pc |-> 4096]
    /\ sig[1].ird = 20081 /\ sig[1].sr = 9984 /\ sig[1].pc = 16515072
    /\ sig[1].addr = 512

\* C17: a fault scheduled by the embedder inside the callback of a read8,
\* read16, write8 or write16 that began with nothing pending is thrown by
\* that same call, after the callback; a fault scheduled inside the sync
\* callback is not thrown by that sync call and is pending after it; a
\* pending fault stays pending through every other operation on the
\* adapter and is thrown by the next read8/read16/write8/write16/sync call.
C17_ScheduleInsideCallback ==
    [][ /\ (last'.op \in AccessOps /\ ~pendingBusError /\ SchedCount(events') = 1)
           => /\ Len(sig') = 1
              /\ sig'[1].addr = lastSched'[1].addr
              /\ sig'[1].code = (IF lastSched'[1].isWrite THEN 0 ELSE 16)
              /\ Len(events') = 3
              /\ events'[1].ev = "callback"
              /\ events'[2].ev = "schedule"
              /\ events'[3].ev = "throw"
              /\ ~pendingBusError'
        /\ (last'.op = "sync" /\ SchedCount(events') = 1)
           => /\ sig' = <<>>
              /\ events'[1].ev = "callback"
              /\ pendingBusError'
              /\ busErrorAddress' = lastSched'[1].addr
              /\ busErrorIsWrite' = lastSched'[1].isWrite
        /\ (pendingBusError /\ last'.op \notin DeliveryOps \cup {"moira_destroy"})
           => pendingBusError'
        /\ (pendingBusError /\ last'.op \in DeliveryOps)
           => Len(sig') = 1 ]_vars

C17_Witness ==
    /\ last.op = "sync"
    /\ Len(events) = 2
    /\ events[1].ev = "callback"
    /\ events[2].ev = "schedule"
    /\ sig = <<>>
    /\ pendingBusError
    /\ busErrorAddress = 11259375
    /\ busErrorIsWrite

\* C18: moira_reset leaves the pending flag, the fault address and the
\* isWrite flag as they were, and so does every step of the engine inside
\* reset that is not a read8/read16/write8/write16/sync call, the return
\* included; while reset runs, a pending fault ceases to be pending only
\* by being thrown by one of those calls.
C18_ResetKeepsSlot ==
    [][ /\ (last'.op = "moira_reset")
           => (UNCHANGED slotVars /\ sig' = <<>> /\ where' = "reset")
        /\ (where = "reset" /\ last'.op \notin DeliveryOps)
           => (UNCHANGED slotVars /\ sig' = <<>>)
        /\ (where = "reset" /\ pendingBusError /\ ~pendingBusError')
           => (last'.op \in DeliveryOps /\ Len(sig') = 1) ]_vars

C18_Witness ==
    /\ last.op = "reset returned"
    /\ where = "embedder"
    /\ pendingBusError
    /\ busErrorAddress = 512
    /\ ~busErrorIsWrite
    /\ surplus = 1

====
